---- MODULE Spec2Model ----
(***************************************************************************)
(* forecast_position of goft.py: one blocking call that opens a session,   *)
(* warms it up, submits a forecast request, scrapes the result identifier  *)
(* from the response, fetches the CSV export and reads it into a table.    *)
(*                                                                         *)
(* Text (response bodies, cookie values, identifiers) is a sequence of     *)
(* one-character strings.  The interpreter is Python 3: r.content is a     *)
(* bytes object and str() of it is its repr, b'...'.                       *)
(***************************************************************************)
EXTENDS Integers, Sequences, FiniteSets, TLC

\* Longest response body the service answers with in Spec.
MaxBody == 7
\* Longest text on either side of the error marker in a marked body.
MaxAround == 1

VARIABLES pc, args, frame, sent, outcome

vars == <<pc, args, frame, sent, outcome>>

----------------------------------------------------------------------------
\* Module-level names of goft.py

host == "https://gaia.esac.esa.int"

default_observing_period_from == "2014-09-26T00:00:00"

default_observing_period_to == "2019-06-07T00:00:00"

None == "None"

----------------------------------------------------------------------------
\* Text helpers

AllStrings(alphabet, n) == UNION {[1..k -> alphabet] : k \in 0..n}

\* sub in s
Contains(s, sub) ==
    \E i \in 1..(Len(s) - Len(sub) + 1) : SubSeq(s, i, i + Len(sub) - 1) = sub

Has(s, c) == \E i \in 1..Len(s) : s[i] = c

RECURSIVE Concat(_)
Concat(ss) == IF ss = <<>> THEN <<>> ELSE Head(ss) \o Concat(Tail(ss))

\* Python 3 repr of one byte inside a bytes literal delimited by quote.
EscapeByte(c, quote) ==
    CASE c = "\\" -> <<"\\", "\\">>
      [] c = "\n" -> <<"\\", "n">>
      [] c = "\t" -> <<"\\", "t">>
      [] c = "\r" -> <<"\\", "r">>
      [] c = "'" /\ quote = "'" -> <<"\\", "'">>
      [] OTHER -> <<c>>

\* str(content) for a bytes object: b'...' (b"..." when the bytes hold a
\* single quote and no double quote), with the bytes escaped.
StrOfBytes(content) ==
    LET quote == IF Has(content, "'") /\ ~Has(content, "\"") THEN "\"" ELSE "'"
    IN  <<"b", quote>>
          \o Concat([i \in 1..Len(content) |-> EscapeByte(content[i], quote)])
          \o <<quote>>

IsSpace(c) == c \in {" ", "\n", "\t", "\r"}

\* str.split() with no separator: the maximal runs of non-whitespace.
RECURSIVE SplitFrom(_, _, _, _)
SplitFrom(s, i, cur, acc) ==
    IF i > Len(s)
    THEN IF cur = <<>> THEN acc ELSE Append(acc, cur)
    ELSE IF IsSpace(s[i])
         THEN SplitFrom(s, i + 1, <<>>, IF cur = <<>> THEN acc ELSE Append(acc, cur))
         ELSE SplitFrom(s, i + 1, Append(cur, s[i]), acc)

\* (s is evaluated once, then scanned.)
Split(s) == CHOOSE tokens \in {SplitFrom(v, 1, <<>>, <<>>) : v \in {s}} : TRUE

RECURSIVE UpTo(_, _)
UpTo(s, sep) ==
    IF s = <<>> \/ Head(s) = sep THEN <<>> ELSE <<Head(s)>> \o UpTo(Tail(s), sep)

\* s.split(sep)[0]: s up to its first sep.  (s is evaluated once.)
SplitFirst(s, sep) == CHOOSE first \in {UpTo(v, sep) : v \in {s}} : TRUE

ErrorMarker == <<"e", "r", "r", "o", "r">>

\* "{}/{}".format(a, b)
FormatIdentifier(a, b) == a \o <<"/">> \o b

----------------------------------------------------------------------------
\* astropy units

AngularUnits == {"deg", "arcmin"}

IsAngular(unit) == unit \in AngularUnits

\* q.to(u.deg).value
ToDegValue(q) == IF q.unit = "arcmin" THEN q.value \div 60 ELSE q.value

QuantityInputOkRaOnly(a) == IsAngular(a.ra.unit)

\* @u.quantity_input(ra=u.deg, dec=u.deg)
QuantityInputOk(a) == IsAngular(a.ra.unit) /\ IsAngular(a.dec.unit)

----------------------------------------------------------------------------
\* requests

OkStatus(status) == ~(400 <= status /\ status < 600)

NoCookies == [n \in {} |-> <<>>]

Request(method, path, session, payload) ==
    [method |-> method, url |-> host \o path, session |-> session.id, payload |-> payload]

\* Table.read(BytesIO(content), format="csv"): a header line and data lines
\* with as many cells as the header.
CsvWellFormed(lines) ==
    /\ lines # <<>>
    /\ \A i \in 1..Len(lines) : Len(lines[i]) = Len(lines[1])

TableRead(lines) == [colnames |-> Head(lines), rows |-> Tail(lines)]

----------------------------------------------------------------------------
\* What the caller passes and what the service answers

Quantity(value, unit) == [value |-> value, unit |-> unit]

CallInputs ==
    [ra : {Quantity(34, "deg"), Quantity(120, "arcmin"), Quantity(5, "m")},
     dec : {Quantity(-13, "deg"), Quantity(3, "s")},
     observation_period_from : {None, "yesterday"},
     observation_period_to : {None, "2016-01-01T00:00:00"},
     full_output : BOOLEAN]

BodyAlphabet == {"x", " ", "<"}

MarkedBodies ==
    {p \o ErrorMarker \o q : p, q \in AllStrings(BodyAlphabet, MaxAround)}

\* Bodies whose only whitespace is the line break.
LineBodies == AllStrings({"x", "\n"}, MaxBody)

ServiceBodies == AllStrings(BodyAlphabet, MaxBody) \cup LineBodies \cup MarkedBodies

Statuses == {200, 500}

SessionIds == {<<"A", "1">>}

CsvPayloads ==
    { <<<<"a", "b">>, <<"1", "2">>>>,
      <<<<"a", "b">>, <<"1">>>>,
      <<>> }

----------------------------------------------------------------------------
\* The call

NoOutcome == [kind |-> "none"]

Raise(exc, line) == [kind |-> "raise", exc |-> exc, line |-> line]

Returned(value) == [kind |-> "return", value |-> value]

Init ==
    /\ pc = "Idle"
    /\ args = [n \in {} |-> None]
    /\ frame = [n \in {} |-> None]
    /\ sent = <<>>
    /\ outcome = NoOutcome

\* Lines 51-52.
PeriodFrom(a) ==
    IF a.observation_period_from = None
    THEN default_observing_period_from
    ELSE a.observation_period_from

PeriodToCoupled(a) ==
    IF a.observation_period_from = None
    THEN default_observing_period_to
    ELSE a.observation_period_to

\* Lines 54-55.
PeriodTo(a) ==
    IF a.observation_period_to = None
    THEN default_observing_period_to
    ELSE a.observation_period_to

\* Lines 18-55: the decorator validates the units, then the period bounds
\* default.
Call ==
    /\ pc = "Idle"
    /\ \E a \in CallInputs :
         /\ args' = a
         /\ IF ~QuantityInputOk(a)
            THEN /\ pc' = "Failed"
                 /\ outcome' = Raise("UnitsError", 18)
                 /\ frame' = frame
            ELSE /\ pc' = "Entered"
                 /\ outcome' = outcome
                 /\ frame' = [ra |-> a.ra, dec |-> a.dec,
                              observation_period_from |-> PeriodFrom(a),
                              observation_period_to |-> PeriodTo(a),
                              full_output |-> a.full_output]
    /\ sent' = sent

WarmUpSkipped ==
    /\ pc = "Entered"
    /\ \E cookies \in {NoCookies} \cup {("JSESSIONID" :> sid) : sid \in SessionIds} :
          frame' = frame @@ ("session" :> [id |-> 1, cookies |-> cookies])
    /\ pc' = "SessionWarmed"
    /\ UNCHANGED <<args, sent, outcome>>

\* Lines 59-60: a new session, and the warm-up GET whose response is
\* discarded; the response may set the session cookie.
WarmUp ==
    /\ pc = "Entered"
    /\ LET session == [id |-> 1, cookies |-> NoCookies]
       IN  /\ sent' = Append(sent, Request("GET", "/gost/", session, <<>>))
           /\ \/ /\ pc' = "Failed"
                 /\ outcome' = Raise("ConnectionError", 60)
                 /\ frame' = frame @@ ("session" :> session)
              \/ /\ \E status \in Statuses, cookies \in {NoCookies} \cup
                                 {("JSESSIONID" :> sid) : sid \in SessionIds} :
                       frame' = frame @@ ("session" :> [session EXCEPT !.cookies = cookies])
                 /\ pc' = "SessionWarmed"
                 /\ outcome' = outcome
    /\ args' = args

\* Lines 62-70: the form.
FormData(f) ==
    [serviceCode |-> 1, srcname |-> "", inputmode |-> "single",
     srcra |-> ToDegValue(f.ra), srcdec |-> ToDegValue(f.dec),
     from |-> f.observation_period_from, to |-> f.observation_period_to]

CheckResponseNoMarker(resp) ==
    IF ~OkStatus(resp.status) THEN Raise("HTTPError", 82) ELSE NoOutcome

CheckResponseMarkerFirst(resp) ==
    IF Contains(StrOfBytes(resp.content), ErrorMarker) THEN Raise("AssertionError", 85)
    ELSE IF ~OkStatus(resp.status) THEN Raise("HTTPError", 82)
    ELSE NoOutcome

\* Lines 81-86 on the response r: the exception raised, or NoOutcome.
CheckResponse(resp) ==
    IF ~OkStatus(resp.status) THEN Raise("HTTPError", 82)
    ELSE IF Contains(StrOfBytes(resp.content), ErrorMarker) THEN Raise("AssertionError", 85)
    ELSE NoOutcome

\* Lines 62-86: the POST, the status check and the error-marker assertion.
Submit ==
    /\ pc = "SessionWarmed"
    /\ sent' = Append(sent, Request("POST", "/gost/GostServlet", frame.session,
                                    FormData(frame)))
    /\ \/ /\ pc' = "Failed"
          /\ outcome' = Raise("ConnectionError", 80)
          /\ frame' = frame
       \/ \E status \in Statuses, content \in ServiceBodies :
            LET resp == [status |-> status, content |-> content]
            IN  /\ frame' = frame @@ ("r" :> resp)
                /\ outcome' = CheckResponse(resp)
                /\ pc' = IF CheckResponse(resp) = NoOutcome THEN "Submitted" ELSE "Failed"
    /\ args' = args

\* Line 89.
ResultIdTokens(content) == Split(StrOfBytes(content))

ResultId(content) == SplitFirst(ResultIdTokens(content)[4], "<")

\* Lines 88-92: the result id scraped from the body, and the identifier.
ParseIdentifier ==
    /\ pc = "Submitted"
    /\ IF Len(ResultIdTokens(frame.r.content)) < 4
       THEN /\ pc' = "Failed"
            /\ outcome' = Raise("IndexError", 89)
            /\ frame' = frame
       ELSE LET result_id == ResultId(frame.r.content)
            IN  IF "JSESSIONID" \notin DOMAIN frame.session.cookies
                THEN /\ pc' = "Failed"
                     /\ outcome' = Raise("KeyError", 92)
                     /\ frame' = frame @@ ("result_id" :> result_id)
                ELSE /\ pc' = "IdentifierParsed"
                     /\ outcome' = outcome
                     /\ frame' = frame @@ ("result_id" :> result_id) @@
                           ("identifier" :>
                              FormatIdentifier(frame.session.cookies["JSESSIONID"], result_id))
    /\ UNCHANGED <<args, sent>>

FetchExportPolling ==
    /\ pc = "IdentifierParsed"
    /\ sent' = Append(sent, Request("GET", "/gost/export.jsp", frame.session,
                                    [id |-> frame.identifier, format |-> "csv"]))
    /\ \/ /\ pc' = "Failed"
          /\ outcome' = Raise("ConnectionError", 96)
          /\ frame' = frame
       \/ /\ \E status \in Statuses, content \in CsvPayloads :
               /\ frame' = IF OkStatus(status)
                           THEN frame @@ ("result" :> [status |-> status, content |-> content])
                           ELSE frame
               /\ pc' = IF OkStatus(status) THEN "ResultFetched" ELSE pc
          /\ outcome' = outcome
    /\ args' = args

\* Lines 95-97: the export GET; its status is not looked at.
FetchExport ==
    /\ pc = "IdentifierParsed"
    /\ sent' = Append(sent, Request("GET", "/gost/export.jsp", frame.session,
                                    [id |-> frame.identifier, format |-> "csv"]))
    /\ \/ /\ pc' = "Failed"
          /\ outcome' = Raise("ConnectionError", 96)
          /\ frame' = frame
       \/ /\ \E status \in Statuses, content \in CsvPayloads :
               frame' = frame @@ ("result" :> [status |-> status, content |-> content])
          /\ pc' = "ResultFetched"
          /\ outcome' = outcome
    /\ args' = args

ReadTablePartial ==
    /\ pc = "ResultFetched"
    /\ IF frame.result.content # <<>>
       THEN /\ pc' = "TableParsed"
            /\ outcome' = outcome
            /\ frame' = frame @@ ("forecast" :>
                  [colnames |-> Head(frame.result.content),
                   rows |-> SelectSeq(Tail(frame.result.content),
                                      LAMBDA l : Len(l) = Len(Head(frame.result.content)))])
       ELSE /\ pc' = "Failed"
            /\ outcome' = Raise("InconsistentTableError", 99)
            /\ frame' = frame
    /\ UNCHANGED <<args, sent>>

\* Line 99.
ReadTable ==
    /\ pc = "ResultFetched"
    /\ IF CsvWellFormed(frame.result.content)
       THEN /\ pc' = "TableParsed"
            /\ outcome' = outcome
            /\ frame' = frame @@ ("forecast" :> TableRead(frame.result.content))
       ELSE /\ pc' = "Failed"
            /\ outcome' = Raise("InconsistentTableError", 99)
            /\ frame' = frame
    /\ UNCHANGED <<args, sent>>

\* Lines 102-105.
ReturnValue(f) ==
    IF f.full_output THEN <<f.forecast, f.identifier, f.session>> ELSE f.forecast

Return ==
    /\ pc = "TableParsed"
    /\ pc' = "Done"
    /\ outcome' = Returned(ReturnValue(frame))
    /\ UNCHANGED <<args, frame, sent>>

Next ==
    \/ Call
    \/ WarmUp
    \/ Submit
    \/ ParseIdentifier
    \/ FetchExport
    \/ ReadTable
    \/ Return

Spec == Init /\ [][Next]_vars


----------------------------------------------------------------------------
\* Vocabulary of the properties

Bound(name) == name \in DOMAIN frame

Terminal == pc \in {"Done", "Failed"}

\* The whitespace-delimited tokens of the raw body.
RawTokens(content) == Split(content)

HasMarker(content) ==
    \E i \in 1..Len(content) :
        /\ i + 4 <= Len(content)
        /\ <<content[i], content[i+1], content[i+2], content[i+3], content[i+4]>>
             = <<"e", "r", "r", "o", "r">>

\* The error taxonomy: which kind of error each Python exception is.
ErrorClass(exc) ==
    CASE exc = "UnitsError" -> "InvalidInput"
      [] exc \in {"HTTPError", "AssertionError"} -> "RemoteServiceError"
      [] exc \in {"IndexError", "InconsistentTableError"} -> "ParseError"
      [] OTHER -> "Other"

Endpoint(q) == <<q.method, q.url>>

LinearOrder ==
    << <<"GET", "https://gaia.esac.esa.int/gost/">>,
       <<"POST", "https://gaia.esac.esa.int/gost/GostServlet">>,
       <<"GET", "https://gaia.esac.esa.int/gost/export.jsp">> >>

\* The requests issued by the time the statement at a source line runs.
RequestsBy(line) ==
    IF line < 60 THEN 0 ELSE IF line < 80 THEN 1 ELSE IF line < 96 THEN 2 ELSE 3

----------------------------------------------------------------------------
\* C1: the network steps of a call occur in one fixed order: warm-up GET,
\* then the POST, then the result identifier from the POST's response, then
\* the export GET, then the table; no step runs before its predecessor has
\* completed and a call that returns has skipped none.
C1_StepsInFixedOrder ==
    /\ Len(sent) <= 3
    /\ \A i \in 1..Len(sent) : Endpoint(sent[i]) = LinearOrder[i]
    /\ Len(sent) >= 1 => Bound("session")
    /\ Bound("r") => Len(sent) >= 2
    /\ Bound("result_id") => Bound("r")
    /\ Bound("identifier") => Bound("result_id")
    /\ Len(sent) = 3 => Bound("identifier") /\ sent[3].payload.id = frame.identifier
    /\ Bound("result") => Len(sent) = 3
    /\ Bound("forecast") => Bound("result")
    /\ outcome.kind = "return" => Bound("forecast") /\ pc = "Done"
    /\ pc = "SessionWarmed" => Len(sent) = 1
    /\ pc = "Submitted" => Len(sent) = 2 /\ Bound("r") /\ ~Bound("identifier")
    /\ pc = "IdentifierParsed" => Len(sent) = 2 /\ Bound("identifier")
    /\ pc = "ResultFetched" => Bound("result") /\ ~Bound("forecast")
    /\ pc \in {"TableParsed", "Done"} => Bound("forecast")

C1_Witness == pc = "Done" /\ Len(sent) = 3

\* C2: a POST response with an OK status whose body contains "error" fails
\* the call with a RemoteServiceError, before any identifier is parsed and
\* before the export GET.
C2_ErrorMarkerRaises ==
    (Bound("r") /\ frame.r.status < 400 /\ HasMarker(frame.r.content))
        => /\ pc = "Failed"
           /\ outcome.kind = "raise"
           /\ ErrorClass(outcome.exc) = "RemoteServiceError"
           /\ ~Bound("result_id")
           /\ ~Bound("identifier")
           /\ Len(sent) = 2

C2_Witness ==
    /\ Bound("r") /\ frame.r.status = 200 /\ HasMarker(frame.r.content)
    /\ pc = "Failed"

\* C3: a POST response with a failure status fails the call with the status
\* error whatever the body holds, an error marker included; no identifier is
\* parsed or composed and the export GET is not issued.
C3_StatusCheckFirst ==
    (Bound("r") /\ frame.r.status >= 400)
        => /\ pc = "Failed"
           /\ outcome.kind = "raise"
           /\ outcome.exc = "HTTPError"
           /\ ErrorClass(outcome.exc) = "RemoteServiceError"
           /\ ~Bound("result_id")
           /\ ~Bound("identifier")
           /\ Len(sent) = 2

C3_Witness ==
    /\ Bound("r") /\ frame.r.status >= 400 /\ HasMarker(frame.r.content)
    /\ pc = "Failed"

\* C4: an OK, unmarked POST response whose raw body has fewer than four
\* whitespace-delimited tokens fails the call with a ParseError and the
\* export GET is never issued.
C4_ShortBodyRaisesParseError ==
    (/\ Bound("r") /\ frame.r.status < 400 /\ ~HasMarker(frame.r.content)
     /\ Len(RawTokens(frame.r.content)) < 4)
        => /\ Len(sent) = 2
           /\ ~Bound("identifier")
           /\ pc # "Submitted" =>
                /\ pc = "Failed"
                /\ outcome.kind = "raise"
                /\ ErrorClass(outcome.exc) = "ParseError"

\* What holds of a failed call, and of a call that got past a step.
C5_FailedState ==
    /\ (outcome.kind = "raise") <=> (pc = "Failed")
    /\ pc = "Failed" =>
         /\ Len(sent) = RequestsBy(outcome.line)
         /\ ~Bound("forecast")
         /\ outcome.line <= 96 => ~Bound("result")
         /\ outcome.line <= 92 => ~Bound("identifier")
         /\ outcome.line <= 85 => ~Bound("result_id")
         /\ outcome.line <= 80 => ~Bound("r")
    /\ pc \in {"IdentifierParsed", "ResultFetched", "TableParsed", "Done"} =>
         /\ frame.r.status < 400
         /\ ~HasMarker(frame.r.content)
         /\ "JSESSIONID" \in DOMAIN frame.session.cookies
    /\ pc \in {"TableParsed", "Done"} =>
         /\ frame.result.content # <<>>
         /\ \A i \in 1..Len(frame.result.content) :
               Len(frame.result.content[i]) = Len(frame.result.content[1])
         /\ frame.forecast.colnames = frame.result.content[1]
         /\ Len(frame.forecast.rows) = Len(frame.result.content) - 1

C6_ReturnShapeNonEmptyParts ==
    outcome.kind = "return" =>
        IF args.full_output
        THEN /\ outcome.value = <<frame.forecast, frame.identifier, frame.session>>
             /\ Len(sent) = 3
             /\ \A i \in 1..Len(sent) : sent[i].session = frame.session.id
             /\ \E i \in 2..(Len(frame.identifier) - 1) :
                   /\ frame.identifier[i] = "/"
                   /\ SubSeq(frame.identifier, 1, i - 1) = frame.session.cookies["JSESSIONID"]
                   /\ SubSeq(frame.identifier, i + 1, Len(frame.identifier)) = frame.result_id
        ELSE outcome.value = frame.forecast

\* C7: the POST form's 'from' is 2014-09-26T00:00:00 when the caller omits
\* the start and 'to' is 2019-06-07T00:00:00 when the caller omits the end,
\* each independently; a supplied bound is sent as given.
C7_PeriodDefaults ==
    Len(sent) >= 2 =>
        /\ sent[2].payload.from =
              IF args.observation_period_from = "None"
              THEN "2014-09-26T00:00:00" ELSE args.observation_period_from
        /\ sent[2].payload.to =
              IF args.observation_period_to = "None"
              THEN "2019-06-07T00:00:00" ELSE args.observation_period_to

C7_Witness ==
    /\ Len(sent) >= 2
    /\ args.observation_period_from = "yesterday"
    /\ args.observation_period_to = "None"
    /\ sent[2].payload.from = "yesterday"

\* C8: a coordinate whose unit is not angular fails the call with
\* InvalidInput before a session exists and before any request.
C8_UnitCheckFirst ==
    (pc # "Idle" /\ (args.ra.unit \notin {"deg", "arcmin"} \/ args.dec.unit \notin {"deg", "arcmin"}))
        => /\ pc = "Failed"
           /\ outcome.kind = "raise"
           /\ ErrorClass(outcome.exc) = "InvalidInput"
           /\ sent = <<>>
           /\ ~Bound("session")

C8_Witness ==
    /\ pc = "Failed" /\ outcome.exc = "UnitsError"
    /\ args.ra.unit = "deg" /\ args.dec.unit = "s"

\* C9: the export GET's 'id' is <JSESSIONID cookie value>/<fourth
\* whitespace-delimited token of the raw body up to its first "<">, for
\* every body that passed the status and marker checks.
C9_IdentifierFromRawBody ==
    Len(sent) = 3 =>
        /\ Len(RawTokens(frame.r.content)) >= 4
        /\ sent[3].payload.id =
              frame.session.cookies["JSESSIONID"] \o <<"/">>
                 \o SplitFirst(RawTokens(frame.r.content)[4], "<")

C10_AtMostOnce ==
    /\ Len(sent) <= 3
    /\ \A i, j \in 1..Len(sent) : Endpoint(sent[i]) = Endpoint(sent[j]) => i = j
    /\ Terminal \/ ENABLED Next

Rank(p) ==
    CASE p = "Idle" -> 0
      [] p = "Entered" -> 1
      [] p = "SessionWarmed" -> 2
      [] p = "Submitted" -> 3
      [] p = "IdentifierParsed" -> 4
      [] p = "ResultFetched" -> 5
      [] p = "TableParsed" -> 6
      [] p = "Done" -> 7
      [] p = "Failed" -> 8

\* C10: each endpoint is requested at most once in a call, three requests
\* at most; every step moves the call one state further along
\* Idle .. Done or to Failed, none is repeated, and a call that has not
\* ended can always take its next step, so it ends in Done or Failed.
C10_BoundedRequestsAndTermination ==
    /\ []C10_AtMostOnce
    /\ [][/\ ~Terminal
          /\ pc' = "Failed" \/ Rank(pc') = Rank(pc) + 1
          /\ Len(sent') <= Len(sent) + 1]_vars

C10_Witness == pc = "Done" /\ Len(sent) = 3 /\ frame.result.status >= 400

====
